---- MODULE Spec2Model ----
(***************************************************************************)
(* Model of src/src/fracture.py: the truncated power-law size model        *)
(* (PowerLawSize), the multi-family population (Populatfion) and the       *)
(* Fisher orientation sampler (FisherOrientation).                         *)
(*                                                                         *)
(* Every method is an operator from the object's state and the call's      *)
(* arguments to the state afterwards, the outcome ("ok" or the name of the *)
(* Python exception that ends the call) and the returned value.  Real      *)
(* numbers are exact rationals <<numerator, denominator>> under Spec and   *)
(* SpecFisher; SpecFloat evaluates range_intensity in IEEE-754 binary64.   *)
(***************************************************************************)
EXTENDS Integers, Sequences, FiniteSets, TLC

VARIABLES
    volume, families,   \* the Populatfion object
    nlists,             \* the list objects Populatfion.sample has created
    outcome,            \* the last call on the population and how it ended
    psize, sout,        \* a PowerLawSize object and the last call on it
    fisher, fout,       \* a FisherOrientation object and the last call on it
    flt                 \* a PowerLawSize evaluated in binary64

vars == <<volume, families, nlists, outcome, psize, sout, fisher, fout, flt>>
popVars == <<volume, families, nlists, outcome>>
sizeVars == <<psize, sout>>
fisherVars == <<fisher, fout>>

(***************************************************************************)
(* Bounds of the model.                                                    *)
(***************************************************************************)
MaxFamilies == 2
MaxLists == 2
MaxCount == 2
MaxRoot == 25

(***************************************************************************)
(* Exact rational arithmetic: the real-number reading of Python's float    *)
(* operators  + - * / **  and of comparisons.                              *)
(***************************************************************************)
Abs(x) == IF x < 0 THEN -x ELSE x

RECURSIVE Gcd(_, _)
Gcd(a, b) == IF b = 0 THEN a ELSE Gcd(b, a % b)

Rat(n, d) ==
    LET s == IF d < 0 THEN -1 ELSE 1
        g == Gcd(Abs(n), Abs(d))
    IN  <<(s * n) \div g, (s * d) \div g>>

R(n) == <<n, 1>>
Lcm(a, b) == (a \div Gcd(a, b)) * b
\* The numerator of x over the least common denominator of x and y.
Over(x, y) == x[1] * (Lcm(x[2], y[2]) \div x[2])
RAdd(x, y) == Rat(Over(x, y) + Over(y, x), Lcm(x[2], y[2]))
RSub(x, y) == Rat(Over(x, y) - Over(y, x), Lcm(x[2], y[2]))
\* Common factors are cancelled before the products are formed.
Cancel(x, y, g1, g2) ==
    <<(x[1] \div g1) * (y[1] \div g2), (x[2] \div g2) * (y[2] \div g1)>>
RMul(x, y) == Cancel(x, y, Gcd(Abs(x[1]), y[2]), Gcd(Abs(y[1]), x[2]))
RInv(x) == IF x[1] < 0 THEN <<-x[2], -x[1]>> ELSE <<x[2], x[1]>>
RDiv(x, y) == RMul(x, RInv(y))
RNeg(x) == <<-x[1], x[2]>>
RLt(x, y) == Over(x, y) < Over(y, x)
RLe(x, y) == Over(x, y) <= Over(y, x)
RIsZero(x) == x[1] = 0

RECURSIVE RPowNat(_, _)
RPowNat(x, n) == IF n = 0 THEN R(1) ELSE RMul(x, RPowNat(x, n - 1))

\* x ** e for an integer exponent e; Python raises ZeroDivisionError for 0 ** negative.
PowDefined(x, e) == ~(RIsZero(x) /\ e < 0)
RPow(x, e) == IF e >= 0 THEN RPowNat(x, e) ELSE RInv(RPowNat(x, -e))

\* The non-negative rational r with r ** n = q (n >= 1), when there is one.
RECURSIVE IPow(_, _)
IPow(r, n) == IF n = 0 THEN 1 ELSE r * IPow(r, n - 1)
IntRoots(m, n) == {r \in 0..MaxRoot : IPow(r, n) = m}
HasRoot(q, n) == q[1] >= 0 /\ IntRoots(q[1], n) # {} /\ IntRoots(q[2], n) # {}
Root(q, n) ==
    <<CHOOSE r \in IntRoots(q[1], n) : TRUE, CHOOSE r \in IntRoots(q[2], n) : TRUE>>

\* q ** (-1/k) for an integer power k # 0 and q > 0.
HasPowInvK(q, k) == IF k > 0 THEN HasRoot(RInv(q), k) ELSE HasRoot(q, -k)
PowInvK(q, k) == IF k > 0 THEN Root(RInv(q), k) ELSE Root(q, -k)

Unset == <<>>
None == <<>>

OK(st, v) == [st |-> st, status |-> "ok", value |-> v]
Raise(st, e) == [st |-> st, status |-> e, value |-> None]

(***************************************************************************)
(* PowerLawSize.  A size model is the record                               *)
(*   power, diam_range, intensity, sample_range : the attrs fields,        *)
(*   kind          : "tuple" or "list", the type of the sample_range       *)
(*                   object the constructor was given,                     *)
(*   _sample_range, _sample_intensity : the attributes set_sample_range    *)
(*                   creates (Unset before the first call),                *)
(*   alias         : whether _sample_range is the very object held by      *)
(*                   sample_range ("sample_range"), by diam_range          *)
(*                   ("diam_range") or another object ("other").           *)
(***************************************************************************)
PowerLawSize(power, diam_range, intensity, sample_range, kind) ==
    [power |-> power, diam_range |-> diam_range, intensity |-> intensity,
     sample_range |-> sample_range, kind |-> kind,
     _sample_range |-> Unset, _sample_intensity |-> Unset, alias |-> "other"]

range_intensity(self, range) ==
    LET a == self.diam_range[1]
        b == self.diam_range[2]
        c == range[1]
        d == range[2]
        k == self.power
    IN  IF ~(PowDefined(a, -k) /\ PowDefined(b, -k)
             /\ PowDefined(c, -k) /\ PowDefined(d, -k))
        THEN Raise(self, "ZeroDivisionError")
        ELSE LET den == RSub(RPow(a, -k), RPow(b, -k))
                 num == RMul(self.intensity, RSub(RPow(c, -k), RPow(d, -k)))
             IN  IF RIsZero(den) THEN Raise(self, "ZeroDivisionError")
                 ELSE OK(self, RDiv(num, den))

\* The argument of set_sample_range: None, the object the model already holds
\* in its sample_range field, or another range object <<lo, hi>>.
ArgNone == [ref |-> "None", v |-> None]
ArgOwn == [ref |-> "self.sample_range", v |-> None]
ArgRange(r) == [ref |-> "other", v |-> r]

PowerLawSize_set_sample_range(self, arg) ==
    LET rng == IF arg.ref = "None" THEN self.diam_range
               ELSE IF arg.ref = "self.sample_range" THEN self.sample_range
               ELSE arg.v
        al  == IF arg.ref = "None" THEN "diam_range"
               ELSE IF arg.ref = "self.sample_range" THEN "sample_range"
               ELSE "other"
        s1  == [self EXCEPT !._sample_range = rng, !.alias = al]
        ri  == range_intensity(s1, rng)
    IN  IF ri.status # "ok" THEN Raise(s1, ri.status)
        ELSE OK([s1 EXCEPT !._sample_intensity = ri.value], None)

\* self.sample_range[0] = ... : item assignment on the object held by the
\* sample_range field; a tuple refuses it, a list is changed in place, and
\* with it every attribute that holds the same object.
StoreLower(self, lo) ==
    LET sr == <<lo, self.sample_range[2]>>
    IN  [self EXCEPT !.sample_range = sr,
                     !._sample_range =
                         IF self.alias = "sample_range" THEN sr ELSE @]

set_range_by_intensity(self, intensity) ==
    LET a == self.diam_range[1]
        b == self.diam_range[2]
        d == self.sample_range[2]
        k == self.power
    IN  IF ~(PowDefined(a, -k) /\ PowDefined(b, -k) /\ PowDefined(d, -k))
           \/ RIsZero(self.intensity)
        THEN Raise(self, "ZeroDivisionError")
        ELSE LET q == RAdd(RDiv(RMul(intensity, RSub(RPow(a, -k), RPow(b, -k))),
                                self.intensity),
                           RPow(d, -k))
             IN  IF k = 0 \/ (RIsZero(q) /\ k > 0)
                 THEN Raise(self, "ZeroDivisionError")
                 ELSE IF self.kind = "tuple" THEN Raise(self, "TypeError")
                 ELSE OK(StoreLower(self, PowInvK(q, k)), None)

\* The calls of set_range_by_intensity the model makes: the base of the
\* power is positive and its root is a rational the model can hold.
RangeByIntensityExact(self, intensity) ==
    LET a == self.diam_range[1]
        b == self.diam_range[2]
        d == self.sample_range[2]
        k == self.power
    IN  IF ~(PowDefined(a, -k) /\ PowDefined(b, -k) /\ PowDefined(d, -k))
           \/ RIsZero(self.intensity) \/ k = 0
        THEN TRUE
        ELSE LET q == RAdd(RDiv(RMul(intensity, RSub(RPow(a, -k), RPow(b, -k))),
                                self.intensity),
                           RPow(d, -k))
             IN  IF ~RLt(R(0), q) THEN FALSE
                 ELSE IF self.kind = "tuple" THEN TRUE ELSE HasPowInvK(q, k)

PowerLawSize_mean_size(self, vol) ==
    IF self._sample_intensity = Unset THEN Raise(self, "AttributeError")
    ELSE OK(self, RMul(self._sample_intensity, vol))
(***************************************************************************)
(* Vectors of R^3 and angles.  An angle is held by its sine and cosine,    *)
(* which is all the code reads of it: np.sin and np.cos of np.radians of   *)
(* trend and plunge, np.cos and np.sin of an np.arccos.                    *)
(***************************************************************************)
Vec(x, y, z) == <<x, y, z>>
VScale(v, r) == <<RMul(v[1], r), RMul(v[2], r), RMul(v[3], r)>>
VAdd(u, v) == <<RAdd(u[1], v[1]), RAdd(u[2], v[2]), RAdd(u[3], v[3])>>
VDot(u, v) == RAdd(RAdd(RMul(u[1], v[1]), RMul(u[2], v[2])), RMul(u[3], v[3]))
\* a*b - c*d
Det2(a, b, c, d) == RSub(RMul(a, b), RMul(c, d))
VCross(u, v) ==
    <<Det2(u[2], v[3], u[3], v[2]), Det2(u[3], v[1], u[1], v[3]),
      Det2(u[1], v[2], u[2], v[1])>>
HasNorm(v) == HasRoot(VDot(v, v), 2)
VNorm(v) == Root(VDot(v, v), 2)

Angle(s, c) == [sin |-> s, cos |-> c]
\* arccos(c) for c in [-1, 1], as the angle in [0, pi] with that cosine.
SinSq(c) == RSub(R(1), RMul(c, c))
HasArcCos(c) == HasRoot(SinSq(c), 2)
ArcCos(c) == Angle(Root(SinSq(c), 2), c)

z_axis == Vec(R(0), R(0), R(1))

(***************************************************************************)
(* FisherOrientation: trend and plunge (angles), dispersion.  A finite     *)
(* dispersion k is held as the integer m with k = m * ln 2, so that        *)
(* exp(k) = 2^m is rational; Inf is np.inf.                                *)
(***************************************************************************)
Inf == [inf |-> TRUE, m |-> 0]
Dispersion(m) == [inf |-> FALSE, m |-> m]
FisherOrientation(trend, plunge, dispersion) ==
    [trend |-> trend, plunge |-> plunge, dispersion |-> dispersion]

\* trend = strike + 90 and plunge = 90 - dip, on sines and cosines.
strike_dip(strike, dip, dispersion) ==
    FisherOrientation(Angle(strike.cos, RNeg(strike.sin)),
                      Angle(dip.cos, dip.sin), dispersion)

Exp2(m) == RPow(R(2), m)
Log2s(q) == {e \in -4..4 : Exp2(e) = q}
HasLog2(q) == Log2s(q) # {}
Log2(q) == CHOOSE e \in Log2s(q) : TRUE

\* The colatitude cosine drawn from unif by the inverse CDF.
cos_theta(self, unif) ==
    IF self.dispersion.m = 0 THEN RSub(R(1), RMul(R(2), unif))
    ELSE LET exp_k == Exp2(self.dispersion.m)
             exp_ik == RDiv(R(1), exp_k)
         IN  RDiv(R(Log2(RSub(exp_k, RMul(unif, RSub(exp_k, exp_ik))))),
                  R(self.dispersion.m))

\* The draws (unif, psi) the model can evaluate exactly.
ExactDraw(self, unif) ==
    \/ self.dispersion.inf
    \/ /\ self.dispersion.m = 0 \/
          LET exp_k == Exp2(self.dispersion.m)
          IN  HasLog2(RSub(exp_k, RMul(unif, RSub(exp_k, RDiv(R(1), exp_k)))))
       /\ HasArcCos(cos_theta(self, unif))

\* One standard normal from its colatitude cosine ct and azimuth psi.
standard_normal(ct, psi) ==
    Vec(RMul(psi.sin, ct), RMul(psi.cos, ct), ArcCos(ct).sin)

\* unif and psi are the n numbers each of the two np.random.uniform calls
\* returns; drawn counts the random numbers consumed.
_sample_standard_fisher(self, n, unif, psi) ==
    IF self.dispersion.inf
    THEN [normals |-> [i \in 1..n |-> Vec(R(0), R(0), R(1))], drawn |-> 0]
    ELSE [normals |->
            [i \in 1..n |-> standard_normal(cos_theta(self, unif[i]), psi[i])],
          drawn |-> 2 * n]

_mean_normal(self) ==
    Vec(RMul(self.trend.sin, self.plunge.cos),
        RMul(self.trend.cos, self.plunge.cos),
        self.plunge.sin)

\* v / |v|.
Unit(v) == VScale(v, RInv(VNorm(v)))

\* axes / np.maximum(ax_norm, 1e-200).  The floor 1e-200 only acts on a zero
\* cross product: 0 / 1e-200 = 0.
DivByNorm(axes, ax_norm) ==
    IF RIsZero(ax_norm) THEN axes ELSE VScale(axes, RInv(ax_norm))
Floored(axes) == DivByNorm(axes, VNorm(axes))

\* The row of a unit normal: axis z x n normalised, angle arccos(n . z).
unit_row(norms) ==
    [axis |-> Floored(VCross(z_axis, norms)), angle |-> ArcCos(VDot(norms, z_axis))]
HasUnitRow(norms) == HasArcCos(VDot(norms, z_axis)) /\ HasNorm(VCross(z_axis, norms))

\* One row of normal_to_axis_angle, and the normals the model can hold it for.
HasAxisAngle(normal) ==
    IF HasNorm(normal) /\ ~RIsZero(VDot(normal, normal))
    THEN HasUnitRow(Unit(normal)) ELSE FALSE

axis_angle_row(normal) == unit_row(Unit(normal))

normal_to_axis_angle(normals) ==
    [i \in 1..Len(normals) |-> axis_angle_row(normals[i])]

\* Rodrigues' formula with the operands of the cross product exchanged.
rotate_one_swapped(v, axis, cos_angle, sin_angle) ==
    VAdd(VAdd(VScale(v, cos_angle), VScale(VCross(v, axis), sin_angle)),
         VScale(axis, RMul(VDot(v, axis), RSub(R(1), cos_angle))))

\* Rodrigues' formula on one vector.
rotate_one(v, axis, cos_angle, sin_angle) ==
    VAdd(VAdd(VScale(v, cos_angle), VScale(VCross(axis, v), sin_angle)),
         VScale(axis, RMul(VDot(v, axis), RSub(R(1), cos_angle))))

\* angle == 0 returns the vectors as they are.
rotate(vectors, axis_angle) ==
    IF axis_angle.angle.cos = R(1) /\ axis_angle.angle.sin = R(0) THEN vectors
    ELSE [i \in 1..Len(vectors) |->
            rotate_one(vectors[i], axis_angle.axis, axis_angle.angle.cos,
                       axis_angle.angle.sin)]

\* raw is what _sample_standard_fisher returned.
rotate_to_mean(raw, axis_angle) ==
    [normals |-> rotate(raw.normals, axis_angle[1]), drawn |-> raw.drawn]

sample_normal(self, size, unif, psi) ==
    rotate_to_mean(_sample_standard_fisher(self, size, unif, psi),
                   normal_to_axis_angle(<<_mean_normal(self)>>))

\* s is what sample_normal returned.
to_axis_angle(s) == [rows |-> normal_to_axis_angle(s.normals), drawn |-> s.drawn]

sample_axis_angle(self, size, unif, psi) ==
    to_axis_angle(sample_normal(self, size, unif, psi))
(***************************************************************************)
(* PowerLawSize.sample and the quantile function.                          *)
(***************************************************************************)
\* Quantile function: (pmin - x * (pmin - pmax)) ** (-1 / power).
_ppf(self, x, min, max) ==
    LET pmin == RPow(min, -self.power)
        pmax == RPow(max, -self.power)
        scaled == RSub(pmin, RMul(x, RSub(pmin, pmax)))
    IN  PowInvK(scaled, self.power)

\* np.random.rand(size=size).  rand takes its dimensions positionally and has
\* no keyword parameter, so the call raises TypeError and draws nothing; U is
\* what a call that returned would have drawn.
np_random_rand(size, U) == [status |-> "TypeError", value |-> <<>>]

\* np.random.poisson(lam=lam, size=1): a negative lam is refused with
\* ValueError; count is the number a call that returns draws.
np_random_poisson(lam, count) ==
    IF RLt(lam, R(0)) THEN [status |-> "ValueError", value |-> <<>>]
    ELSE [status |-> "ok", value |-> <<count>>]

\* The diameters for the uniform draws u over the sample range.
diameters(self, u) ==
    IF u.status # "ok" THEN Raise(self, u.status)
    ELSE OK(self, [i \in 1..Len(u.value) |->
                      _ppf(self, u.value[i], self._sample_range[1],
                           self._sample_range[2])])

\* size = np.random.poisson(lam=self.mean_size(volume), size=1), m being
\* what mean_size returned.
sample_poisson(self, m, count, U) ==
    IF m.status # "ok" THEN Raise(self, m.status)
    ELSE IF np_random_poisson(m.value, count).status # "ok"
    THEN Raise(self, np_random_poisson(m.value, count).status)
    ELSE diameters(self, np_random_rand(np_random_poisson(m.value, count).value, U))

\* A sample that falls back to the full diam_range when no sample range was
\* set and returns the lower bound for every draw.
DefaultedRange(self) ==
    IF self._sample_range = Unset
    THEN [self EXCEPT !._sample_range = self.diam_range, !.alias = "diam_range",
                      !._sample_intensity = self.intensity]
    ELSE self
PowerLawSize_sample_defaulting(self, vol, size, count, U) ==
    OK(DefaultedRange(self),
       [i \in 1..(IF size = None THEN count ELSE size[1]) |-> self.diam_range[1]])

\* size is None or <<n>>; count is the Poisson draw, U the uniform draws.
PowerLawSize_sample(self, vol, size, count, U) ==
    IF size = None
    THEN sample_poisson(self, PowerLawSize_mean_size(self, vol), count, U)
    ELSE diameters(self, np_random_rand(size, U))

(***************************************************************************)
(* FractureShape, FrFamily and Populatfion (volume, families).             *)
(***************************************************************************)
FractureShape(r, centre, rotation_axis, rotation_angle, region, aspect) ==
    [r |-> r, centre |-> centre, rotation_axis |-> rotation_axis,
     rotation_angle |-> rotation_angle, region |-> region, aspect |-> aspect]

FrFamily(name, orientation, shape) ==
    [name |-> name, orientation |-> orientation, shape |-> shape]

add_family(fams, name, position, shape) ==
    Append(fams, FrFamily(name, position, shape))

\* sum(family.shape.mean_size(self.volume) for family in self.families)
RECURSIVE SumMeanSize(_, _, _, _)
SumMeanSize(fams, vol, i, acc) ==
    IF i > Len(fams) THEN OK(fams, acc)
    ELSE LET m == PowerLawSize_mean_size(fams[i].shape, vol)
         IN  IF m.status # "ok" THEN Raise(fams, m.status)
             ELSE SumMeanSize(fams, vol, i + 1, RAdd(acc, m.value))

Populatfion_mean_size(fams, vol) == SumMeanSize(fams, vol, 1, R(0))

\* for f in self.families: f.shape.set_sample_range(sample_range)
RECURSIVE SetRanges(_, _, _)
SetRanges(fams, arg, i) ==
    IF i > Len(fams) THEN OK(fams, None)
    ELSE LET r == PowerLawSize_set_sample_range(fams[i].shape, arg)
             fs == [fams EXCEPT ![i].shape = r.st]
         IN  IF r.status # "ok" THEN Raise(fs, r.status)
             ELSE SetRanges(fs, arg, i + 1)

\* f.mean_size(volume) on an FrFamily, which has the attributes name,
\* orientation and shape only: the attribute lookup raises AttributeError.
FrFamily_mean_size(f, vol) == Raise(f, "AttributeError")

\* for f in self.families: f.shape.set_range_by_intensity(
\*     f.mean_size(volume) / total_size * max_sample_size / self.volume)
RECURSIVE CapRanges(_, _, _, _, _)
CapRanges(fams, vol, total_size, max_sample_size, i) ==
    IF i > Len(fams) THEN OK(fams, None)
    ELSE LET fm == FrFamily_mean_size(fams[i], vol)
         IN  IF fm.status # "ok" THEN Raise(fams, fm.status)
             ELSE IF RIsZero(vol) THEN Raise(fams, "ZeroDivisionError")
             ELSE LET t == RDiv(RMul(RDiv(fm.value, total_size), max_sample_size), vol)
                      r == set_range_by_intensity(fams[i].shape, t)
                      fs == [fams EXCEPT ![i].shape = r.st]
                  IN  IF r.status # "ok" THEN Raise(fs, r.status)
                      ELSE CapRanges(fs, vol, total_size, max_sample_size, i + 1)

Populatfion_set_sample_range(fams, vol, sample_range, max_sample_size) ==
    LET s == SetRanges(fams, sample_range, 1)
    IN  IF s.status # "ok" \/ max_sample_size = None THEN s
        ELSE LET total_size == Populatfion_mean_size(s.st, vol)
             IN  IF total_size.status # "ok" THEN Raise(s.st, total_size.status)
                 ELSE IF RLt(max_sample_size, total_size.value)
                 THEN CapRanges(s.st, vol, total_size.value, max_sample_size, 1)
                 ELSE s

\* Populatfion.sample: draws[i] holds what the random source gives family i:
\* count (Poisson), U (diameters), unif and psi (orientation), centers.

\* zip(diams, fr_axis_angle, centers) of one family into FractureShape records.
zip_fractures(f, diams, aa, centers) ==
    [j \in 1..Len(diams) |->
        FractureShape(diams[j], centers[j], aa[j].axis, aa[j].angle, f.name, 1)]

family_fractures(f, diams, draw) ==
    zip_fractures(f, diams,
                  sample_axis_angle(f.orientation, Len(diams), draw.unif, draw.psi).rows,
                  draw.centers)

\* The loop over the families; diams is what f.shape.sample returned for
\* family i.
RECURSIVE SampleFamilies(_, _, _, _, _)
SampleFrom(fams, vol, draws, i, fractures, diams) ==
    IF diams.status # "ok"
    THEN Raise([fams EXCEPT ![i].shape = diams.st], diams.status)
    ELSE SampleFamilies([fams EXCEPT ![i].shape = diams.st], vol, draws, i + 1,
                        fractures \o family_fractures(fams[i], diams.value, draws[i]))

SampleFamilies(fams, vol, draws, i, fractures) ==
    IF i > Len(fams) THEN OK(fams, fractures)
    ELSE SampleFrom(fams, vol, draws, i, fractures,
                    PowerLawSize_sample(fams[i].shape, vol, None, draws[i].count,
                                        draws[i].U))

Populatfion_sample(fams, vol, draws) == SampleFamilies(fams, vol, draws, 1, <<>>)
(***************************************************************************)
(* The inputs the model draws.                                             *)
(***************************************************************************)
Range(lo, hi) == <<R(lo), R(hi)>>
Powers == {-1, 0, 1, 2}
DiamRanges == {Range(1, 4), Range(1, 2), Range(4, 1), Range(0, 4)}
Kinds == {"tuple", "list"}
SizeInputs ==
    {PowerLawSize(k, dr, R(3), dr, kd) : k \in Powers, dr \in DiamRanges, kd \in Kinds}
    \cup {PowerLawSize(2, Range(1, 100), R(10), Range(1, 100), "tuple")}
NewRanges == {Range(1, 4), Range(2, 4), Range(1, 2)}
RangeArgs == {ArgNone, ArgOwn} \cup {ArgRange(r) : r \in NewRanges}
Targets == {R(1), R(2), R(3), Rat(3, 5)}
Volumes == {R(1), R(2), R(-1)}
Sizes == {None, <<1>>}
UDraws == {R(0)}

\* The record of a call: the method, its arguments, how the call ended and
\* what it returned.
NoCall == [op |-> "__init__", status |-> "ok", value |-> None, arg |-> None]
Call(op, arg, res) ==
    [op |-> op, status |-> res.status, value |-> res.value, arg |-> arg]

InitOther ==
    /\ fisher = FisherOrientation(Angle(R(0), R(1)), Angle(R(1), R(0)), Inf)
    /\ fout = NoCall
    /\ flt = <<>>

(***************************************************************************)
(* SpecSize: one PowerLawSize object and the calls on it.                  *)
(***************************************************************************)
InitSize ==
    /\ psize \in SizeInputs
    /\ sout = NoCall
    /\ volume = R(1) /\ families = <<>> /\ nlists = 0 /\ outcome = NoCall
    /\ InitOther

SizeSetSampleRange ==
    \E arg \in RangeArgs :
        LET r == PowerLawSize_set_sample_range(psize, arg)
        IN  /\ psize' = r.st
            /\ sout' = Call("set_sample_range", arg, r)
            /\ UNCHANGED <<popVars, fisherVars, flt>>

SizeSetRangeByIntensity ==
    \E t \in Targets :
        /\ RangeByIntensityExact(psize, t)
        /\ LET r == set_range_by_intensity(psize, t)
           IN  /\ psize' = r.st
               /\ sout' = Call("set_range_by_intensity", t, r)
        /\ UNCHANGED <<popVars, fisherVars, flt>>

SizeMeanSize ==
    \E vol \in Volumes :
        LET r == PowerLawSize_mean_size(psize, vol)
        IN  /\ psize' = r.st
            /\ sout' = Call("mean_size", vol, r)
            /\ UNCHANGED <<popVars, fisherVars, flt>>

SizeSample ==
    \E vol \in Volumes, sz \in Sizes, count \in 0..MaxCount :
        LET r == PowerLawSize_sample(psize, vol, sz, count, [i \in 1..MaxCount |-> R(0)])
        IN  /\ psize' = r.st
            /\ sout' = Call("sample", [vol |-> vol, size |-> sz], r)
            /\ UNCHANGED <<popVars, fisherVars, flt>>

NextSize ==
    \/ SizeSetSampleRange
    \/ SizeSetRangeByIntensity
    \/ SizeMeanSize
    \/ SizeSample

SpecSize == InitSize /\ [][NextSize]_vars
(***************************************************************************)
(* Spec: a Populatfion, the families added to it and the calls on it.      *)
(***************************************************************************)
Names == <<"A", "B", "C", "D">>
PopShapes ==
    {PowerLawSize(1, Range(1, 4), R(3), Range(1, 4), "tuple"),
     PowerLawSize(2, Range(1, 4), R(3), Range(1, 4), "list"),
     PowerLawSize(0, Range(1, 4), R(3), Range(1, 4), "tuple")}
PopRangeArgs == {ArgNone, ArgRange(Range(2, 4))}
PopVolumes == {R(1), R(2)}
MaxSampleSizes == {None, R(2), R(100)}
Vertical == FisherOrientation(Angle(R(0), R(1)), Angle(R(1), R(0)), Inf)

\* What the random source gives one family in Populatfion.sample.
DrawOf(count) ==
    [count |-> count,
     U |-> [j \in 1..count |-> R(0)],
     unif |-> [j \in 1..count |-> R(0)],
     psi |-> [j \in 1..count |-> Angle(R(0), R(1))],
     centers |-> [j \in 1..count |-> Vec(R(0), R(0), R(0))]]

\* A list kept between the calls instead of one created by each.
SharedList(n) == IF n = 0 THEN 1 ELSE n

\* fractures = [] : a list object created by the call; n lists exist, named
\* 1..n.
NewList(n) == n + 1

PopCall(op, arg, res, list) ==
    [op |-> op, status |-> res.status, value |-> res.value, arg |-> arg,
     list |-> list]

Init ==
    /\ volume \in PopVolumes
    /\ families = <<>>
    /\ nlists = 0
    /\ outcome = NoCall
    /\ psize = PowerLawSize(1, Range(1, 4), R(3), Range(1, 4), "tuple")
    /\ sout = NoCall
    /\ InitOther

AddFamily ==
    /\ Len(families) < MaxFamilies
    /\ \E shape \in PopShapes :
          /\ families' = add_family(families, Names[Len(families) + 1], Vertical, shape)
          /\ outcome' = PopCall("add_family", shape, OK(families', None), 0)
    /\ UNCHANGED <<volume, nlists, sizeVars, fisherVars, flt>>

PopMeanSize ==
    LET r == Populatfion_mean_size(families, volume)
    IN  /\ families' = r.st
        /\ outcome' = PopCall("mean_size", None, r, 0)
        /\ UNCHANGED <<volume, nlists, sizeVars, fisherVars, flt>>

PopSetSampleRange ==
    \E arg \in PopRangeArgs, max \in MaxSampleSizes :
        LET r == Populatfion_set_sample_range(families, volume, arg, max)
        IN  /\ families' = r.st
            /\ outcome' = PopCall("set_sample_range", [range |-> arg, max |-> max], r, 0)
            /\ UNCHANGED <<volume, nlists, sizeVars, fisherVars, flt>>

PopSample ==
    /\ nlists < MaxLists
    /\ \E count \in 0..MaxCount :
          LET r == Populatfion_sample(families, volume,
                                      [i \in 1..Len(families) |-> DrawOf(count)])
              list == NewList(nlists)
          IN  /\ families' = r.st
              /\ nlists' = IF list > nlists THEN list ELSE nlists
              /\ outcome' = PopCall("sample", [count |-> count], r,
                                    IF r.status = "ok" THEN list ELSE 0)
    /\ UNCHANGED <<volume, sizeVars, fisherVars, flt>>

\* f.shape.sample(volume, size) on the size model of family i.
ShapeSample ==
    \E i \in 1..Len(families), sz \in Sizes, count \in 0..MaxCount :
        LET r == PowerLawSize_sample(families[i].shape, volume, sz, count,
                                     DrawOf(count).U)
        IN  /\ families' = [families EXCEPT ![i].shape = r.st]
            /\ outcome' = PopCall("shape.sample", [family |-> i, size |-> sz], r, 0)
            /\ UNCHANGED <<volume, nlists, sizeVars, fisherVars, flt>>

Next ==
    \/ AddFamily
    \/ PopMeanSize
    \/ PopSetSampleRange
    \/ PopSample
    \/ ShapeSample

Spec == Init /\ [][Next]_vars
(***************************************************************************)
(* SpecFisher: one FisherOrientation object and the sampling calls on it.  *)
(***************************************************************************)
Angles ==
    {Angle(R(0), R(1)), Angle(R(1), R(0)), Angle(R(-1), R(0)),
     Angle(Rat(3, 5), Rat(4, 5))}
Dispersions == {Inf, Dispersion(0), Dispersion(1), Dispersion(-1)}
Unifs == {R(0), Rat(1, 10), Rat(2, 3)}
Psis == {Angle(R(0), R(1)), Angle(Rat(3, 5), Rat(4, 5))}

FisherCall(op, n, unif, psi, res, rows) ==
    [op |-> op, size |-> n, unif |-> unif, psi |-> psi,
     normals |-> res.normals, drawn |-> res.drawn, rows |-> rows]

InitFisher ==
    /\ fisher \in {FisherOrientation(t, p, d) : t \in Angles, p \in Angles,
                                                d \in Dispersions}
    /\ fout = NoCall
    /\ volume = R(1) /\ families = <<>> /\ nlists = 0 /\ outcome = NoCall
    /\ psize = PowerLawSize(1, Range(1, 4), R(3), Range(1, 4), "tuple")
    /\ sout = NoCall
    /\ flt = <<>>

FisherSampleNormal ==
    \E n \in 1..MaxCount, u \in Unifs, p \in Psis :
        /\ ExactDraw(fisher, u)
        /\ LET unif == [i \in 1..n |-> u]
               psi == [i \in 1..n |-> p]
               r == sample_normal(fisher, n, unif, psi)
           IN  fout' = FisherCall("sample_normal", n, unif, psi, r, <<>>)
        /\ UNCHANGED <<fisher, popVars, sizeVars, flt>>

FisherSampleAxisAngle ==
    \E n \in 1..MaxCount, u \in Unifs, p \in Psis :
        /\ ExactDraw(fisher, u)
        /\ LET unif == [i \in 1..n |-> u]
               psi == [i \in 1..n |-> p]
               r == sample_normal(fisher, n, unif, psi)
           IN  /\ \A i \in 1..n : HasAxisAngle(r.normals[i])
               /\ fout' = FisherCall("sample_axis_angle", n, unif, psi, r,
                                     sample_axis_angle(fisher, n, unif, psi).rows)
        /\ UNCHANGED <<fisher, popVars, sizeVars, flt>>

NextFisher ==
    \/ FisherSampleNormal
    \/ FisherSampleAxisAngle

SpecFisher == InitFisher /\ [][NextFisher]_vars
(***************************************************************************)
(* Python floats (IEEE 754 binary64, round to nearest, ties to even) for   *)
(* the arithmetic of range_intensity and mean_size.  A natural number of   *)
(* any size is the sequence of its digits in base Base, lowest first, with *)
(* no leading zero digit; <<>> is 0.                                       *)
(***************************************************************************)
Base == 64 * 64
Digit(x, i) == IF i <= Len(x) THEN x[i] ELSE 0

RECURSIVE BTrim(_)
BTrim(x) ==
    IF x # <<>> /\ x[Len(x)] = 0 THEN BTrim(SubSeq(x, 1, Len(x) - 1)) ELSE x

RECURSIVE BFromInt(_)
BFromInt(n) == IF n = 0 THEN <<>> ELSE <<n % Base>> \o BFromInt(n \div Base)

\* The digits of t from digit i on, t being x + y + c or x * k + c at digit i.
Carry(t) == IF t = 0 THEN <<>> ELSE <<t>>
RECURSIVE BAddC(_, _, _, _)
BAddStep(x, y, i, t) == <<t % Base>> \o BAddC(x, y, i + 1, t \div Base)
BAddC(x, y, i, c) ==
    IF i > Len(x) /\ i > Len(y) THEN Carry(c)
    ELSE BAddStep(x, y, i, Digit(x, i) + Digit(y, i) + c)
BAdd(x, y) == BAddC(x, y, 1, 0)

\* x - y for x >= y.
RECURSIVE BSubB(_, _, _, _)
BSubStep(x, y, i, t) ==
    <<(t + Base) % Base>> \o BSubB(x, y, i + 1, IF t < 0 THEN 1 ELSE 0)
BSubB(x, y, i, b) ==
    IF i > Len(x) THEN <<>> ELSE BSubStep(x, y, i, x[i] - Digit(y, i) - b)
BSub(x, y) == BTrim(BSubB(x, y, 1, 0))

RECURSIVE BLessFrom(_, _, _)
BLessFrom(x, y, i) ==
    IF i = 0 THEN FALSE
    ELSE IF x[i] # y[i] THEN x[i] < y[i]
    ELSE BLessFrom(x, y, i - 1)
BLess(x, y) == IF Len(x) # Len(y) THEN Len(x) < Len(y) ELSE BLessFrom(x, y, Len(x))

\* x * k for a digit k.
RECURSIVE BMulDigitC(_, _, _, _)
BMulStep(x, k, i, t) == <<t % Base>> \o BMulDigitC(x, k, i + 1, t \div Base)
BMulDigitC(x, k, i, c) ==
    IF i > Len(x) THEN Carry(c) ELSE BMulStep(x, k, i, x[i] * k + c)
BMulDigit(x, k) == IF k = 0 THEN <<>> ELSE BMulDigitC(x, k, 1, 0)

TimesBase(x) == IF x = <<>> THEN <<>> ELSE <<0>> \o x
RECURSIVE BMulFrom(_, _, _)
BMulFrom(x, y, j) ==
    IF j > Len(y) THEN <<>>
    ELSE BAdd(BMulDigit(x, y[j]), TimesBase(BMulFrom(x, y, j + 1)))
BMul(x, y) == BMulFrom(x, y, 1)

RECURSIVE BPow(_, _)
BPow(x, n) == IF n = 0 THEN <<1>> ELSE BMul(x, BPow(x, n - 1))

\* floor(x / 2): the digits from the highest down, r the bit carried down.
RECURSIVE BHalfFrom(_, _, _)
BHalfFrom(x, i, r) ==
    IF i = 0 THEN <<>>
    ELSE Append(BHalfFrom(x, i - 1, x[i] % 2), (r * Base + x[i]) \div 2)
BHalf(x) == BTrim(BHalfFrom(x, Len(x), 0))
BOdd(x) == x # <<>> /\ x[1] % 2 = 1

RECURSIVE IntBits(_)
IntBits(n) == IF n = 0 THEN 0 ELSE 1 + IntBits(n \div 2)
DigitBits == IntBits(Base - 1)
BBitLen(x) == IF x = <<>> THEN 0 ELSE DigitBits * (Len(x) - 1) + IntBits(x[Len(x)])

\* x * 2^s and floor(x / 2^s).
RECURSIVE BShl(_, _)
BShl(x, s) ==
    IF s = 0 \/ x = <<>> THEN x
    ELSE IF s >= DigitBits THEN BShl(<<0>> \o x, s - DigitBits)
    ELSE BShl(BAdd(x, x), s - 1)
RECURSIVE BShr(_, _)
BShr(x, s) ==
    IF s = 0 \/ x = <<>> THEN x
    ELSE IF s >= DigitBits THEN BShr(Tail(x), s - DigitBits)
    ELSE BShr(BHalf(x), s - 1)

\* Quotient and remainder of n by d: s holds the rest n of the dividend, t
\* = d * 2^i with n < 2 * t, and the quotient bits q found so far.
RECURSIVE DivBits(_, _)
DivBits(s, i) ==
    IF i < 0 THEN [q |-> s.q, r |-> s.n]
    ELSE IF BLess(s.n, s.t)
    THEN DivBits([n |-> s.n, t |-> BHalf(s.t), q |-> BAdd(s.q, s.q)], i - 1)
    ELSE DivBits([n |-> BSub(s.n, s.t), t |-> BHalf(s.t),
                  q |-> BAdd(BAdd(s.q, s.q), <<1>>)], i - 1)
DivFrom(n, d, k) == DivBits([n |-> n, t |-> BShl(d, k), q |-> <<>>], k)
BDivMod(n, d) ==
    DivFrom(n, d, IF BBitLen(n) > BBitLen(d) THEN BBitLen(n) - BBitLen(d) ELSE 0)

\* A float is 0 or sign * m * 2^e with m of Precision bits.
Precision == 53
Zero == [sign |-> 1, m |-> <<>>, e |-> 0]
IsZero(x) == x.m = <<>>

\* Rounding to nearest, ties to even: m is the quotient without its low
\* bits, low those bits, half the weight of the first of them, sticky says
\* that the division left a remainder.
Normal(sign, m, e) ==
    IF BBitLen(m) > Precision THEN [sign |-> sign, m |-> BHalf(m), e |-> e + 1]
    ELSE [sign |-> sign, m |-> m, e |-> e]
RoundUp(sign, m, low, half, sticky, e) ==
    Normal(sign,
           IF BLess(half, low) \/ (low = half /\ (sticky \/ BOdd(m)))
           THEN BAdd(m, <<1>>) ELSE m,
           e)
RoundDrop(sign, qr, e, t) ==
    RoundUp(sign, BShr(qr.q, t), BSub(qr.q, BShl(BShr(qr.q, t), t)),
            BShl(<<1>>, t - 1), qr.r # <<>>, e + t)
RoundQuot(sign, qr, e) == RoundDrop(sign, qr, e, BBitLen(qr.q) - Precision)
RoundShifted(sign, n, d, e, s) ==
    RoundQuot(sign,
              IF s >= 0 THEN BDivMod(BShl(n, s), d) ELSE BDivMod(n, BShl(d, -s)),
              e - s)

\* The float nearest to sign * (n / d) * 2^e, for naturals n, d > 0.
RoundRatio(sign, n, d, e) ==
    RoundShifted(sign, n, d, e, Precision + 2 - (BBitLen(n) - BBitLen(d)))

\* float(i) of a Python int.
FromInt(i) ==
    IF i = 0 THEN Zero
    ELSE RoundRatio(IF i < 0 THEN -1 ELSE 1, BFromInt(Abs(i)), <<1>>, 0)

\* x * y, x / y (y # 0) and x - y (x, y >= 0) of floats.
float_mul(x, y) ==
    IF IsZero(x) \/ IsZero(y) THEN Zero
    ELSE RoundRatio(x.sign * y.sign, BMul(x.m, y.m), <<1>>, x.e + y.e)
float_div(x, y) ==
    IF IsZero(x) THEN Zero ELSE RoundRatio(x.sign * y.sign, x.m, y.m, x.e - y.e)
Min(a, b) == IF a < b THEN a ELSE b
SubAt(xm, ym, e) ==
    IF xm = ym THEN Zero
    ELSE IF BLess(ym, xm) THEN RoundRatio(1, BSub(xm, ym), <<1>>, e)
    ELSE RoundRatio(-1, BSub(ym, xm), <<1>>, e)
float_sub(x, y) ==
    IF IsZero(y) THEN x
    ELSE IF IsZero(x) THEN [y EXCEPT !.sign = -1]
    ELSE SubAt(BShl(x.m, x.e - Min(x.e, y.e)), BShl(y.m, y.e - Min(x.e, y.e)),
               Min(x.e, y.e))

\* c ** (-k) for a Python int c > 0 and an int k > 0: the int is converted
\* and the C library's pow gives the float nearest to 1 / c^k.
float_pow(c, k) == RoundRatio(1, <<1>>, BPow(BFromInt(c), k), 0)

(***************************************************************************)
(* PowerLawSize with the arithmetic of range_intensity and mean_size done  *)
(* in floats.  power, the bounds of the ranges, intensity and volume are   *)
(* Python ints, power >= 1 and the bounds >= 0.                            *)
(***************************************************************************)
FloatSize(power, diam_range, intensity) ==
    [power |-> power, diam_range |-> diam_range, intensity |-> intensity,
     _sample_range |-> Unset, _sample_intensity |-> Unset]

\* c**(-k) - d**(-k)
pow_difference(c, d, k) == float_sub(float_pow(c, k), float_pow(d, k))

\* num / den of floats: a zero divisor raises ZeroDivisionError.
true_divide(self, num, den) ==
    IF IsZero(den) THEN Raise(self, "ZeroDivisionError")
    ELSE OK(self, float_div(num, den))

\* self.intensity * (c**(-k) - d**(-k)) / (a**(-k) - b**(-k)) without the
\* factor self.intensity.
float_range_intensity_unscaled(self, range) ==
    IF 0 \in {range[1], range[2], self.diam_range[1], self.diam_range[2]}
    THEN Raise(self, "ZeroDivisionError")
    ELSE true_divide(self, pow_difference(range[1], range[2], self.power),
                     pow_difference(self.diam_range[1], self.diam_range[2], self.power))

\* 0 ** (-k) raises ZeroDivisionError.
float_range_intensity(self, range) ==
    IF 0 \in {range[1], range[2], self.diam_range[1], self.diam_range[2]}
    THEN Raise(self, "ZeroDivisionError")
    ELSE true_divide(self,
                     float_mul(FromInt(self.intensity),
                               pow_difference(range[1], range[2], self.power)),
                     pow_difference(self.diam_range[1], self.diam_range[2], self.power))

\* ri is what range_intensity returned for the stored range.
store_intensity(s1, ri) ==
    IF ri.status # "ok" THEN Raise(s1, ri.status)
    ELSE OK([s1 EXCEPT !._sample_intensity = ri.value], None)
store_range(self, rng) ==
    store_intensity([self EXCEPT !._sample_range = rng],
                    float_range_intensity([self EXCEPT !._sample_range = rng], rng))
float_set_sample_range(self, sample_range) ==
    store_range(self, IF sample_range = None THEN self.diam_range ELSE sample_range)

float_mean_size(self, vol) ==
    IF self._sample_intensity = Unset THEN Raise(self, "AttributeError")
    ELSE OK(self, float_mul(self._sample_intensity, FromInt(vol)))
(***************************************************************************)
(* SpecFloat: one PowerLawSize object and the calls of set_sample_range    *)
(* and mean_size on it, in floats.                                         *)
(***************************************************************************)
MaxPower == 2
FloatRanges == {<<1, 10>>, <<2, 5>>, <<10, 1>>, <<3, 3>>, <<0, 4>>}
FloatIntensities == {3, 7, 10}
FloatRangeArgs == {None, <<2, 4>>}
FloatVolumes == {1, 3}

InitFloat ==
    /\ flt \in {[size |-> FloatSize(k, r, i), out |-> NoCall] :
                   k \in 1..MaxPower, r \in FloatRanges, i \in FloatIntensities}
    /\ fisher = FisherOrientation(Angle(R(0), R(1)), Angle(R(1), R(0)), Inf)
    /\ fout = NoCall
    /\ volume = R(1) /\ families = <<>> /\ nlists = 0 /\ outcome = NoCall
    /\ psize = PowerLawSize(1, Range(1, 4), R(3), Range(1, 4), "tuple")
    /\ sout = NoCall

FloatSetSampleRange ==
    \E arg \in FloatRangeArgs :
        /\ flt' = [size |-> float_set_sample_range(flt.size, arg).st,
                   out |-> Call("set_sample_range", arg,
                                float_set_sample_range(flt.size, arg))]
        /\ UNCHANGED <<popVars, sizeVars, fisherVars>>

FloatMeanSize ==
    \E vol \in FloatVolumes :
        /\ flt' = [size |-> float_mean_size(flt.size, vol).st,
                   out |-> Call("mean_size", vol, float_mean_size(flt.size, vol))]
        /\ UNCHANGED <<popVars, sizeVars, fisherVars>>

NextFloat ==
    \/ FloatSetSampleRange
    \/ FloatMeanSize

SpecFloat == InitFloat /\ [][NextFloat]_vars
(***************************************************************************)
(* The claims.                                                             *)
(***************************************************************************)
\* The parameters the specification calls valid for a size model.
ValidSize(s) ==
    /\ s.power > 0
    /\ RLt(R(0), s.diam_range[1])
    /\ RLt(s.diam_range[1], s.diam_range[2])

\* The total mean size with every family sampled over the range arg.
Unconstrained(fams, vol, arg) == Populatfion_mean_size(SetRanges(fams, arg, 1).st, vol)
RangesSettable(fams, arg) == SetRanges(fams, arg, 1).status = "ok"

\* The last call was Populatfion.set_sample_range with a cap that the
\* unconstrained total mean exceeds.
CapApplies ==
    /\ outcome.op = "set_sample_range"
    /\ outcome.arg.max # None
    /\ RangesSettable(families, outcome.arg.range)
    /\ RLt(outcome.arg.max, Unconstrained(families, volume, outcome.arg.range).value)

CapNotNeeded ==
    /\ outcome.op = "set_sample_range"
    /\ outcome.arg.max # None
    /\ RangesSettable(families, outcome.arg.range)
    /\ ~RLt(outcome.arg.max, Unconstrained(families, volume, outcome.arg.range).value)

\* C1: after Populatfion.set_sample_range(range, max_sample_size=M), if the
\* total mean size over range exceeded M then mean_size() is at most M, and
\* if it did not then mean_size() equals the unconstrained value.
C1_CapBoundsMeanSize ==
    /\ CapApplies =>
          /\ outcome.status = "ok"
          /\ RLe(Populatfion_mean_size(families, volume).value, outcome.arg.max)
    /\ CapNotNeeded =>
          /\ outcome.status = "ok"
          /\ Populatfion_mean_size(families, volume).value
                = Unconstrained(families, volume, outcome.arg.range).value

\* C2: once set_sample_range has been called on a PowerLawSize with valid
\* parameters, the stored sample intensity equals range_intensity of the
\* current sample range in every state, also after set_range_by_intensity.
C2_IntensityFollowsRange ==
    (ValidSize(psize) /\ psize._sample_intensity # Unset) =>
        range_intensity(psize, psize._sample_range).value = psize._sample_intensity

\* C3: set_range_by_intensity(t) on a PowerLawSize with valid parameters
\* returns, leaves the upper bound of the sample range as it was and makes
\* range_intensity of the new sample range equal to t.
C3_LowerBoundMeetsTarget ==
    [][(sout'.op = "set_range_by_intensity" /\ ValidSize(psize)) =>
          /\ sout'.status = "ok"
          /\ psize'.sample_range[2] = psize.sample_range[2]
          /\ range_intensity(psize', psize'.sample_range).value = sout'.arg]_vars

\* C4: PowerLawSize.sample and Populatfion.sample on a size model on which
\* set_sample_range was never called end in an error, return no diameters
\* and leave the model without a sample range.
C4_SampleBeforeRangeFails ==
    [][/\ (outcome'.op = "sample"
            /\ \E i \in DOMAIN families : families[i].shape._sample_range = Unset) =>
              /\ outcome'.status # "ok"
              /\ outcome'.value = None
              /\ \A i \in DOMAIN families :
                    families[i].shape._sample_range = Unset =>
                        families'[i].shape._sample_range = Unset
       /\ (outcome'.op = "shape.sample"
            /\ families[outcome'.arg.family].shape._sample_range = Unset) =>
              /\ outcome'.status # "ok"
              /\ outcome'.value = None
              /\ families'[outcome'.arg.family].shape._sample_range = Unset]_vars

C4_Witness ==
    /\ outcome.op = "sample"
    /\ outcome.status = "AttributeError"
    /\ Len(families) = 2
    /\ \A i \in DOMAIN families : families[i].shape._sample_range = Unset

\* C5: a PowerLawSize with invalid parameters, or a volume <= 0, never gets
\* an ordinary result from set_sample_range, mean_size or sample.
C5_InvalidRejected ==
    /\ (~ValidSize(psize) /\ sout.op \in {"set_sample_range", "mean_size", "sample"}) =>
          sout.status # "ok"
    /\ (sout.op = "mean_size" /\ RLe(sout.arg, R(0))) => sout.status # "ok"

\* The mean size of family i, and its share of the total, over the range arg.
FamilyMean(fams, vol, i) == PowerLawSize_mean_size(fams[i].shape, vol).value
FamilyShare(fams, vol, arg, i) ==
    RDiv(FamilyMean(SetRanges(fams, arg, 1).st, vol, i), Unconstrained(fams, vol, arg).value)

\* C6: when the cap applies, the call returns and every family's mean size
\* is its share of the unconstrained total times M, so that the shares of
\* the families are the same before and after.
C6_CapProportional ==
    CapApplies =>
        /\ outcome.status = "ok"
        /\ \A i \in DOMAIN families :
              FamilyMean(families, volume, i)
                = RMul(FamilyShare(families, volume, outcome.arg.range, i),
                       outcome.arg.max)

\* Every family has a sample range set by a call that returned.
AllRangesSet ==
    \A i \in DOMAIN families :
        /\ ValidSize(families[i].shape)
        /\ families[i].shape._sample_intensity # Unset

\* C7: Populatfion.sample() on families with their sample ranges set returns
\* one FractureShape per drawn diameter, grouped by family in the order the
\* families were added, with region the family's name and aspect 1.
C7_SampleGroupedByFamily ==
    (outcome.op = "sample" /\ AllRangesSet) =>
        /\ outcome.status = "ok"
        /\ Len(outcome.value) = outcome.arg.count * Len(families)
        /\ \A i \in DOMAIN families : \A j \in 1..outcome.arg.count :
              /\ outcome.value[(i - 1) * outcome.arg.count + j].region = families[i].name
              /\ outcome.value[(i - 1) * outcome.arg.count + j].aspect = 1

\* C8: a call of Populatfion.sample() leaves the volume and the families,
\* with all the fields of their size models, as they were, and a call that
\* returns gives a list that no earlier call returned.
C8_SampleHasNoSideEffect ==
    [][outcome'.op = "sample" =>
          /\ volume' = volume
          /\ families' = families
          /\ outcome'.status = "ok" => outcome'.list > nlists]_vars

C8_Witness ==
    /\ outcome.op = "sample"
    /\ outcome.status = "ok"
    /\ outcome.value = <<>>
    /\ outcome.list = 2

\* |x - i| <= i * 2^(-51) for a float x > 0 and an int i > 0, the numbers
\* taken over the common unit 2^e.
CloseAt(xm, im, e) ==
    IF BLess(xm, im) THEN ~BLess(im, BShl(BSub(im, xm), 51))
    ELSE ~BLess(im, BShl(BSub(xm, im), 51))
CloseTo(x, i) ==
    /\ x.sign = 1
    /\ ~IsZero(x)
    /\ CloseAt(BShl(x.m, x.e - Min(x.e, 0)), BShl(BFromInt(i), -Min(x.e, 0)), Min(x.e, 0))

ValidFloatSize(s) == 0 < s.diam_range[1] /\ s.diam_range[1] < s.diam_range[2]
DefaultRangeCall == flt.out.op = "set_sample_range" /\ flt.out.arg = None
MeanOverFullRange ==
    /\ flt.out.op = "mean_size"
    /\ flt.out.status = "ok"
    /\ flt.size._sample_range = flt.size.diam_range

\* C9 as stated: set_sample_range() with the range omitted sets the sample
\* range to diam_range and the sample intensity to exactly intensity, and
\* mean_size(volume) is then exactly intensity * volume.
C9_DefaultRangeExact ==
    /\ (DefaultRangeCall /\ ValidFloatSize(flt.size)) =>
          /\ flt.out.status = "ok"
          /\ flt.size._sample_range = flt.size.diam_range
          /\ flt.size._sample_intensity = FromInt(flt.size.intensity)
    /\ (MeanOverFullRange /\ ValidFloatSize(flt.size)) =>
          flt.out.value = FromInt(flt.size.intensity * flt.out.arg)

\* C9 amended: set_sample_range() with the range omitted sets the sample
\* range to diam_range; it raises ZeroDivisionError when a bound is 0 or the
\* bounds are equal, and otherwise stores a sample intensity within a
\* relative error of 2^(-51) of intensity, and mean_size(volume) is then
\* within 2^(-51) of intensity * volume.
C9_DefaultRangeRounded ==
    /\ DefaultRangeCall =>
          /\ flt.size._sample_range = flt.size.diam_range
          /\ IF 0 \in {flt.size.diam_range[1], flt.size.diam_range[2]}
                \/ flt.size.diam_range[1] = flt.size.diam_range[2]
             THEN flt.out.status = "ZeroDivisionError"
             ELSE /\ flt.out.status = "ok"
                  /\ CloseTo(flt.size._sample_intensity, flt.size.intensity)
    /\ MeanOverFullRange => CloseTo(flt.out.value, flt.size.intensity * flt.out.arg)

C9_Witness ==
    /\ DefaultRangeCall
    /\ flt.out.status = "ok"
    /\ flt.size.diam_range = <<1, 10>>
    /\ flt.size._sample_intensity # FromInt(flt.size.intensity)

\* C10: with dispersion = +infinity, sample_normal(n) draws no random
\* number and returns n vectors equal to the mean normal of (trend, plunge):
\* the standard samples are (0,0,1), rotated by the rotation of z onto the
\* mean normal; for trend = 0 and plunge = 90 each is (0,0,1).
C10_NoDispersionGivesMean ==
    (fisher.dispersion.inf /\ fout.op = "sample_normal") =>
        /\ fout.drawn = 0
        /\ Len(fout.normals) = fout.size
        /\ \A i \in 1..fout.size :
              /\ _sample_standard_fisher(fisher, fout.size, fout.unif, fout.psi).normals[i]
                    = z_axis
              /\ fout.normals[i] = _mean_normal(fisher)
              /\ (fisher.trend = Angle(R(0), R(1)) /\ fisher.plunge = Angle(R(1), R(0)))
                    => fout.normals[i] = z_axis

C10_Witness ==
    /\ fisher.dispersion.inf
    /\ fout.op = "sample_normal"
    /\ fout.size = 2
    /\ fisher.plunge = Angle(Rat(3, 5), Rat(4, 5))
    /\ fisher.trend = Angle(Rat(3, 5), Rat(4, 5))
    /\ fout.normals[2] # z_axis

\* The standard-frame vector the specification gives for the colatitude
\* cosine ct and the azimuth psi: (sin psi sin theta, cos psi sin theta, cos theta).
SpecStandardNormal(ct, psi) ==
    Vec(RMul(psi.sin, ArcCos(ct).sin), RMul(psi.cos, ArcCos(ct).sin), ct)

\* C11: for finite dispersion each standard-frame sample drawn from the
\* azimuth psi and the colatitude cosine cos(theta) is the vector
\* (sin(psi)*sin(theta), cos(psi)*sin(theta), cos(theta)): its z-component
\* is the drawn colatitude cosine.
C11_StandardSampleAroundZ ==
    (~fisher.dispersion.inf /\ fout.op \in {"sample_normal", "sample_axis_angle"}) =>
        \A i \in 1..fout.size :
            /\ _sample_standard_fisher(fisher, fout.size, fout.unif, fout.psi).normals[i]
                  = SpecStandardNormal(cos_theta(fisher, fout.unif[i]), fout.psi[i])
            /\ _sample_standard_fisher(fisher, fout.size, fout.unif, fout.psi).normals[i][3]
                  = cos_theta(fisher, fout.unif[i])
====
